---- MODULE Spec2Model ----
(***************************************************************************)
(* A model of the unclut.ai Chrome extension:                              *)
(*   - background.js   : the shared state object, the onMessage listener,  *)
(*                       handleAction, ensureAuthenticated and the stubs;  *)
(*   - contentScript.js: UnclutExtension (init / retry loop, observers,    *)
(*                       injectButtons, handleAction, showToast);          *)
(*   - popup.js        : DEFAULT_SETTINGS, loadSettings, saveSettings and  *)
(*                       the popup's event listeners.                      *)
(* Every JavaScript task (a listener call, a timer callback, a promise     *)
(* continuation with the microtasks it triggers) is one atomic action.     *)
(***************************************************************************)
EXTENDS Integers, Sequences, FiniteSets, TLC

\* ------------------------------------------------------------------ bounds
\* Number of processAction / other messages that are sent in one run.
MaxReq == 2
\* Number of email rows of the inbox table.
MaxRows == 2

\* Length of the text a user types into the max-emails input.
MaxInputLen == 2
\* Number of UnclutExtension instances one page creates.
MaxInst == 2

ReqIds == 1..MaxReq
InstIds == 1..MaxInst
Rows == 1..MaxRows

VARIABLES
    \* background.js
    state,        \* the state object: isAuthenticated, currentUser, lastAction
    req,          \* the messages: where each stands in listener and handler
    \* contentScript.js: the instances and the page
    cur,          \* the global unclutExtension: an instance, or 0 for null
    inst,         \* the UnclutExtension instances created so far
    gmailReady,   \* what isGmailReady() returns: main container and email list exist
    row,          \* row[w]: "absent", or a tr[role=row] "plain" or with a "sender" email
    processed,    \* processed[w]: the row element carries the class unclut-processed
    button,       \* button[w]: the trigger (.unclut-button) of row w is in the DOM
    \* contentScript.js: the injected UI
    menuOpen,     \* menuOpen[w]: the row's .unclut-buttons-container is displayed
    toast,        \* the single .unclut-toast element
    toastTimer,   \* this.toastTimeout is a pending 5 s timer
    toastLog,     \* per message: the toasts handleAction has shown for it
    \* popup.js and chrome.storage.sync
    storage,      \* chrome.storage.sync: a function from the keys it holds
    popup,        \* "closed", "loading" (the get is in flight) or "ready"
    form,         \* the three controls of the popup
    getKeys,      \* the keys loadSettings asked storage for, {} before any load
    setKeys,      \* the keys saveSettings handed to storage, {} before any save
    lastEvent     \* the event whose listener ran last

bgVars == <<state, req>>
domVars == <<row, processed, button>>
lifeVars == <<cur, inst, gmailReady>>
uiVars == <<menuOpen, toast, toastTimer, toastLog>>
popVars == <<storage, popup, form, getKeys, setKeys, lastEvent>>
vars == <<state, req, cur, inst, gmailReady, row, processed, button,
          menuOpen, toast, toastTimer, toastLog,
          storage, popup, form, getKeys, setKeys, lastEvent>>

\* ------------------------------------------------------ background.js data
\* The three actions of the menu, and one no handler knows.
MenuActions == {"unsubscribe", "delete", "both"}
AnyActions == MenuActions \cup {"archive"}
MsgTypes == {"processAction", "extensionInitialized"}
\* What chrome.identity / the userinfo endpoint can hand back.
Accounts == {"acct"}
UserInfos == {"info"}

NoUser == [kind |-> "null", id |-> "null"]

InitialState == [isAuthenticated |-> FALSE, currentUser |-> NoUser, lastAction |-> "null"]

AuthRequiredMsg == "Authentication required. Please sign in to continue."

UnknownActionMsg(action) == "Unknown action: " \o action

\* The canned result objects of the two stubs (the timestamp is left out).
UnsubResult(senderEmail) ==
    [success |-> TRUE, message |-> <<"Successfully unsubscribed from", senderEmail>>]

DeleteResult(senderEmail) ==
    [success |-> TRUE, message |-> <<"Successfully deleted emails from", senderEmail>>,
     count |-> 42]

\* The stubs a switch case of handleAction calls: U = processUnsubscribe,
\* D = processDelete.
StubsOf(action) ==
    CASE action = "unsubscribe" -> {"U"}
      [] action = "delete" -> {"D"}
      [] action = "both" -> {"U", "D"}
      [] OTHER -> {}

\* Mutant of PromiseAll: a race, fulfilled as soon as one promise has fulfilled.
PromiseRace(st, S) ==
    IF \E p \in S : st[p] = "rejected" THEN "rejected"
    ELSE IF \E p \in S : st[p] = "fulfilled" THEN "fulfilled"
    ELSE "pending"

\* Promise.all over the promises S, whose states are st: it rejects as soon as
\* one rejects and fulfils once all have fulfilled.
PromiseAll(st, S) ==
    IF \E p \in S : st[p] = "rejected" THEN "rejected"
    ELSE IF \A p \in S : st[p] = "fulfilled" THEN "fulfilled"
    ELSE "pending"

\* What handleAction returns once its awaited stubs have fulfilled.
ActionResult(action, senderEmail) ==
    CASE action = "unsubscribe" -> UnsubResult(senderEmail)
      [] action = "delete" -> DeleteResult(senderEmail)
      [] OTHER -> [unsubResult |-> UnsubResult(senderEmail),
                   deleteResult |-> DeleteResult(senderEmail)]

\* The two answers of the onMessage listener.
OkResponse(result) == [success |-> TRUE, data |-> result]

ErrResponse(message) == [success |-> FALSE, error |-> message]

NoStubs == [U |-> "idle", D |-> "idle"]

\* A message nobody has sent yet.
NoReq ==
    [origin |-> "none", type |-> "none", action |-> "none", sender |-> 0,
     bpc |-> "none", authAtReceipt |-> FALSE, authed |-> FALSE, stub |-> NoStubs,
     resp |-> <<>>, cpc |-> "none"]

\* Mutant of UpdateState: the user info is dropped.
UpdateStateFlagOnly(st, info) == [st EXCEPT !.isAuthenticated = TRUE]

\* ensureAuthenticated's two assignments to the shared state object.
UpdateState(st, info) ==
    [st EXCEPT !.isAuthenticated = TRUE,
               !.currentUser = [kind |-> "userInfo", id |-> info]]

\* Mutant of AlreadyAuthenticated: the early return is missing.
NeverAlreadyAuthenticated(st) == FALSE

\* ensureAuthenticated's first line: the early return on state.isAuthenticated.
AlreadyAuthenticated(st) == st.isAuthenticated

\* handleAction's switch, entered once ensureAuthenticated has returned: the
\* stubs are called (their 1 s timers start), or the default case throws and
\* the listener's catch answers.
SwitchOnAction(q) ==
    IF StubsOf(q.action) # {}
    THEN [q EXCEPT !.bpc = "stubs",
                   !.stub = [p \in {"U", "D"} |->
                               IF p \in StubsOf(q.action) THEN "pending" ELSE "idle"]]
    ELSE [q EXCEPT !.bpc = "answered",
                   !.resp = Append(@, ErrResponse(UnknownActionMsg(q.action)))]

\* Mutant of AuthFailed: the rejection is caught by nobody, nothing is sent.
AuthFailedSilently(q) == [q EXCEPT !.bpc = "dropped"]

\* Mutant of AuthFailed: the failure is swallowed and the switch is entered.
AuthFailureIgnored(q) == SwitchOnAction(q)

\* ensureAuthenticated's catch: whatever failed, handleAction rejects with the
\* fixed message and the listener's catch answers success: false.
AuthFailed(q) ==
    [q EXCEPT !.bpc = "answered", !.resp = Append(@, ErrResponse(AuthRequiredMsg))]

\* --------------------------------------------------- contentScript.js data
NoToast ==
    [exists |-> FALSE, kind |-> "none", undo |-> FALSE, isSuccess |-> TRUE,
     visible |-> FALSE, for |-> 0]

\* showToast(message, showUndo, isSuccess): the one toast element is created
\* if missing, rewritten and made visible. kind stands for the message text,
\* for for the action and sender named in it.
ShowToast(kind, r, showUndo, isSuccess) ==
    [exists |-> TRUE, kind |-> kind, undo |-> showUndo, isSuccess |-> isSuccess,
     visible |-> TRUE, for |-> r]

\* handleAction (content script) after the await: the try block's toast when
\* sendMessage resolved, the catch block's toast when it rejected. The
\* response itself is not looked at.
FinalToastKind(sendOutcome, response) ==
    IF sendOutcome = "resolved" THEN "success" ELSE "failure"

\* Mutant of MenuAfterItemClick: the menu is left as it is.
MenuLeftOpen(m, w) == m

\* The click handler's last statement: buttonContainer.style.display = 'none'.
MenuAfterItemClick(m, w) == [m EXCEPT ![w] = FALSE]

\* ------------------------------------------------------------ popup.js data
DEFAULT_SETTINGS ==
    [defaultAction |-> "both", maxEmails |-> 100, showConfirmation |-> TRUE,
     theme |-> "light"]

\* The characters a user types into the max-emails input.
InputChars == {"0", "1", "-", "x"}
Digits == <<"0", "1", "2", "3", "4", "5", "6", "7", "8", "9">>

TypedInputs == UNION {[1..n -> InputChars] : n \in 0..MaxInputLen}

IsDigit(c) == \E d \in 1..10 : Digits[d] = c

DigitValue(c) == (CHOOSE d \in 1..10 : Digits[d] = c) - 1

\* The value of the longest run of decimal digits that starts at s[i], with
\* acc the value of the digits before it.
RECURSIVE DigitsFrom(_, _, _)
DigitsFrom(s, i, acc) ==
    IF i > Len(s) \/ ~IsDigit(s[i]) THEN acc
    ELSE DigitsFrom(s, i + 1, acc * 10 + DigitValue(s[i]))

\* parseInt(s, 10): an optional sign, then the leading digits; NaN when there
\* is no digit there. (No typed character is white space.)
ParseInt(s) ==
    LET neg == Len(s) > 0 /\ s[1] = "-"
        first == IF neg THEN 2 ELSE 1
    IN IF first > Len(s) \/ ~IsDigit(s[first])
       THEN [nan |-> TRUE, value |-> 0]
       ELSE [nan |-> FALSE,
             value |-> IF neg THEN 0 - DigitsFrom(s, first, 0) ELSE DigitsFrom(s, first, 0)]

\* parseInt(maxEmailsInput.value, 10) || 100: NaN and 0 are falsy.
MaxEmailsOf(s) ==
    LET n == ParseInt(s)
    IN IF n.nan \/ n.value = 0 THEN 100 ELSE n.value

\* String(n), what assigning a number to input.value stores.
RECURSIVE NatToString(_)
NatToString(n) ==
    IF n < 10 THEN <<Digits[n + 1]>>
    ELSE Append(NatToString(n \div 10), Digits[(n % 10) + 1])

\* Mutant of NumberToString: the sign is lost.
NumberToStringUnsigned(n) == IF n < 0 THEN NatToString(0 - n) ELSE NatToString(n)

NumberToString(n) == IF n < 0 THEN <<"-">> \o NatToString(0 - n) ELSE NatToString(n)

\* Mutant of StorageGet: the defaults win over what storage holds.
StorageGetDefaultsOnly(store, defaults) == defaults

\* chrome.storage.sync.get(defaults, cb): for every key of defaults the stored
\* value, or the default where storage holds none.
StorageGet(store, defaults) ==
    [k \in DOMAIN defaults |-> IF k \in DOMAIN store THEN store[k] ELSE defaults[k]]

\* chrome.storage.sync.set(items): the keys of items are written, the other
\* keys stay.
StorageSet(store, items) ==
    [k \in DOMAIN items \cup DOMAIN store |->
        IF k \in DOMAIN items THEN items[k] ELSE store[k]]

\* Mutant of SettingsToSave: the record of DEFAULT_SETTINGS' four fields.
SettingsToSaveWithTheme(f) ==
    [defaultAction |-> f.action, maxEmails |-> MaxEmailsOf(f.maxEmails),
     showConfirmation |-> f.confirm, theme |-> "light"]

\* The object saveSettings builds from the controls; the ISO timestamp of
\* lastUpdated is abstracted to one value, nothing reads it.
SettingsToSave(f) ==
    [defaultAction |-> f.action, maxEmails |-> MaxEmailsOf(f.maxEmails),
     showConfirmation |-> f.confirm, lastUpdated |-> "timestamp"]

\* What the get callback of loadSettings assigns to the three controls.
FormOf(settings) ==
    [action |-> settings.defaultAction,
     maxEmails |-> NumberToString(settings.maxEmails),
     confirm |-> settings.showConfirmation]

\* The controls as the popup's markup sets them, before loadSettings answers.
BlankForm == [action |-> "unsubscribe", maxEmails |-> <<>>, confirm |-> FALSE]

\* What the onInstalled listener writes.
InstalledItems == [settings |-> "{}"]

\* Storage without the key the onInstalled listener writes: the flat record.
FlatRecord(store) == [k \in DOMAIN store \ {"settings"} |-> store[k]]

\* Mutant of KeyIsEnter: every key saves.
AnyKeySaves(key) == TRUE

\* The keypress listener's test.
KeyIsEnter(key) == key = "Enter"

Keys == {"Enter", "a"}

\* ------------------------------------------ contentScript.js: the instance
maxRetries == 5

\* Mutant of RetryDelay: the delay is not capped.
RetryDelayUncapped(k) == 1000 * (2 ^ k)

\* Math.min(1000 * Math.pow(2, this.retryCount), 30000).
RetryDelay(k) == IF 1000 * (2 ^ k) < 30000 THEN 1000 * (2 ^ k) ELSE 30000

\* Where an attempt of init() can throw: "observe" inside
\* setupMutationObserver before the observer is connected, "styles" after
\* setupMutationObserver and before initialized is set, "notify" in the
\* sendMessage call after it; "none" is an attempt that does not throw.
FailPoints == {"none", "observe", "styles", "notify"}

\* An instance that is not constructed yet. pc is where its init() stands:
\* "waiting" inside waitForGmailContainer (observer and 10 s timer armed),
\* "retryTimer" with a retry scheduled, "settled" with nothing in flight.
\* obs is this.observer: "null", or an observer "connected" or "unconnected";
\* leaked counts the connected observers this.observer no longer refers to.
\* attempts and delays record the calls of init() and the delays scheduled.
\* waitObs and waitTimer are the observer and the 10 s timer local to the
\* running waitForGmailContainer; resolves counts its resolve() calls and
\* resolvedBy names what made the first one.
NoInst ==
    [pc |-> "unborn", initialized |-> FALSE, retryCount |-> 0, timerDelay |-> 0,
     attempts |-> 0, delays |-> <<>>, gaveUp |-> FALSE,
     obs |-> "null", leaked |-> 0, processing |-> FALSE,
     waitObs |-> FALSE, waitTimer |-> FALSE, resolves |-> 0, resolvedBy |-> "none"]

\* The rows of the page as one value.
Dom == [row |-> row, processed |-> processed, button |-> button]

\* Mutant of InjectTargets: rows are taken whether or not they are marked.
InjectTargetsUnmarked(d) == {w \in Rows : d.row[w] = "sender"}

\* The rows injectButtons handles: tr[role=row]:not(.unclut-processed) with a
\* sender cell that has an email.
InjectTargets(d) == {w \in Rows : d.row[w] = "sender" /\ ~d.processed[w]}

\* injectButtons(): each such row gets its trigger and the class.
InjectButtons(d) ==
    [d EXCEPT !.button = [w \in Rows |-> IF w \in InjectTargets(d) THEN TRUE ELSE d.button[w]],
              !.processed = [w \in Rows |-> IF w \in InjectTargets(d) THEN TRUE ELSE d.processed[w]]]

\* The instance has a content MutationObserver that is observing.
HasObserver(x) == x.obs = "connected" \/ x.leaked > 0

\* Mutant of ShouldProcessMutations: no throttle, every callback passes.
ShouldProcessAlways(x) == TRUE

\* shouldProcessMutations(): false while processingMutations is set.
ShouldProcessMutations(x) == ~x.processing

\* The content observers' callbacks after a mutation below document.body:
\* an instance whose shouldProcessMutations() passes sets processingMutations
\* (its 100 ms timer starts) and calls injectButtons; the others return. The
\* insertions of that injectButtons are mutations too, and their callbacks
\* find processingMutations set.
Settle(S) ==
    LET passing == {i \in InstIds : HasObserver(S.I[i]) /\ ShouldProcessMutations(S.I[i])}
    IN IF passing = {} THEN S
       ELSE [I |-> [i \in InstIds |->
                      IF i \in passing THEN [S.I[i] EXCEPT !.processing = TRUE] ELSE S.I[i]],
             d |-> InjectButtons(S.d)]

\* Mutant of RetryGuard: one retry too many.
RetryGuardOffByOne(x) == x.retryCount <= maxRetries

\* retryInitialization's test.
RetryGuard(x) == x.retryCount < maxRetries

\* Mutant of RetryInitialization: the retry is counted but no timer is set.
RetryNotScheduled(x) ==
    IF RetryGuard(x)
    THEN [x EXCEPT !.retryCount = x.retryCount + 1, !.pc = "settled"]
    ELSE [x EXCEPT !.pc = "settled", !.gaveUp = TRUE]

\* retryInitialization(): count the retry and schedule init() after the
\* delay, or give up.
RetryInitialization(x) ==
    IF RetryGuard(x)
    THEN [x EXCEPT !.retryCount = x.retryCount + 1,
                   !.timerDelay = RetryDelay(x.retryCount + 1),
                   !.delays = Append(x.delays, RetryDelay(x.retryCount + 1)),
                   !.pc = "retryTimer"]
    ELSE [x EXCEPT !.pc = "settled", !.gaveUp = TRUE]

\* setupMutationObserver's first half: this.observer is replaced by a new
\* observer; the one it referred to stays connected.
NewObserver(x, connected) ==
    [x EXCEPT !.obs = IF connected THEN "connected" ELSE "unconnected",
              !.leaked = x.leaked + (IF x.obs = "connected" THEN 1 ELSE 0)]

\* init() after waitForGmailContainer has resolved, up to its end or to the
\* statement that throws; a rejected init() runs retryInitialization.
InitBody(S, i, failAt) ==
    IF failAt = "observe"
    THEN [S EXCEPT !.I[i] = RetryInitialization(NewObserver(S.I[i], FALSE))]
    ELSE LET d1 == InjectButtons(S.d)
             S1 == [I |-> [S.I EXCEPT ![i] = NewObserver(S.I[i], TRUE)], d |-> d1]
             S2 == IF d1 # S.d THEN Settle(S1) ELSE S1
         IN CASE failAt = "styles" ->
                   [S2 EXCEPT !.I[i] = RetryInitialization(S2.I[i])]
              [] failAt = "notify" ->
                   [S2 EXCEPT !.I[i] = RetryInitialization([S2.I[i] EXCEPT !.initialized = TRUE])]
              [] OTHER ->
                   [S2 EXCEPT !.I[i] = [S2.I[i] EXCEPT !.initialized = TRUE, !.pc = "settled"]]

\* Mutant of WaitCleanup: the timeout is not cleared.
WaitCleanupKeepsTimer(x) == [x EXCEPT !.waitObs = FALSE]

\* waitForGmailContainer's local cleanup(): the observer is disconnected,
\* the timeout cleared.
WaitCleanup(x) == [x EXCEPT !.waitObs = FALSE, !.waitTimer = FALSE]

\* cleanup(); resolve() in the observer callback or the timeout callback of
\* waitForGmailContainer: init() runs on if the promise was still pending.
ResolveWait(S, i, by, failAt) ==
    LET x == [WaitCleanup(S.I[i]) EXCEPT
                 !.resolves = S.I[i].resolves + 1,
                 !.resolvedBy = IF S.I[i].resolves = 0 THEN by ELSE S.I[i].resolvedBy]
        S0 == [S EXCEPT !.I[i] = x]
    IN IF x.pc = "waiting" THEN InitBody(S0, i, failAt) ELSE S0

\* A call of init(): return at once when initialized, else run on when Gmail
\* is ready, else wait inside waitForGmailContainer with its observer and
\* its 10 s timer armed.
StartInit(S, i, ready, failAt) ==
    LET x == [S.I[i] EXCEPT !.attempts = S.I[i].attempts + 1, !.timerDelay = 0]
        S0 == [S EXCEPT !.I[i] = x]
    IN IF x.initialized THEN [S0 EXCEPT !.I[i] = [x EXCEPT !.pc = "settled"]]
       ELSE IF ready
            THEN InitBody([S0 EXCEPT !.I[i] = [x EXCEPT !.resolves = 1,
                                                        !.resolvedBy = "immediate"]],
                          i, failAt)
       ELSE [S0 EXCEPT !.I[i] = [x EXCEPT !.pc = "waiting", !.waitObs = TRUE,
                                          !.waitTimer = TRUE, !.resolves = 0,
                                          !.resolvedBy = "none"]]

\* cleanup(): this.observer is disconnected and dropped, the toast timer is
\* cleared, every .unclut-button is removed, initialized is reset. The class
\* unclut-processed stays on the rows.
Cleanup(S, i) ==
    [I |-> [S.I EXCEPT ![i] = [S.I[i] EXCEPT !.obs = "null", !.initialized = FALSE]],
     d |-> [S.d EXCEPT !.button = [w \in Rows |-> FALSE]]]

\* The page and the instances become S.
PageBecomes(S) ==
    /\ inst' = S.I
    /\ row' = S.d.row
    /\ processed' = S.d.processed
    /\ button' = S.d.button

\* showToast creates or rewrites the toast below document.body: a mutation
\* the content observers are called for.
ToastMutatesDom ==
    /\ PageBecomes(Settle([I |-> inst, d |-> Dom]))
    /\ UNCHANGED <<cur, gmailReady>>

\* ------------------------------------------------------------------- Init
InitBackground ==
    /\ state = InitialState
    /\ req = [r \in ReqIds |-> NoReq]

\* The page once its first instance has initialized on a loaded inbox and
\* every row carries its trigger.
InitPageInjected ==
    /\ cur = 1
    /\ inst = [i \in InstIds |->
                 IF i = 1
                 THEN [NoInst EXCEPT !.pc = "settled", !.initialized = TRUE,
                                     !.attempts = 1, !.obs = "connected",
                                     !.resolves = 1, !.resolvedBy = "immediate"]
                 ELSE NoInst]
    /\ gmailReady = TRUE
    /\ row = [w \in Rows |-> "sender"]
    /\ processed = [w \in Rows |-> TRUE]
    /\ button = [w \in Rows |-> TRUE]

\* No menu is open and no toast was shown yet.
InitUi ==
    /\ menuOpen = [w \in Rows |-> FALSE]
    /\ toast = NoToast
    /\ toastTimer = FALSE
    /\ toastLog = [r \in ReqIds |-> <<>>]

\* A browser profile the extension is not installed in yet.
InitPopup ==
    /\ storage = [k \in {} |-> 0]
    /\ popup = "closed"
    /\ form = BlankForm
    /\ getKeys = {}
    /\ setKeys = {}
    /\ lastEvent = "none"

InitAction == InitBackground /\ InitPageInjected /\ InitUi /\ InitPopup

\* ------------------------------------------------ contentScript.js actions
\* The trigger's click listener: close every other menu, toggle this one.
TriggerClick(w) ==
    /\ button[w]
    /\ menuOpen' = [x \in Rows |-> IF x = w THEN ~menuOpen[w] ELSE FALSE]
    /\ UNCHANGED <<state, req, domVars, lifeVars, toast, toastTimer, toastLog, popVars>>

\* A menu item's click listener: handleAction up to its await (the progress
\* toast, then sendMessage), then the menu is closed.
ItemClick(w, action) ==
    /\ menuOpen[w]
    /\ \E r \in ReqIds :
        /\ req[r].origin = "none"
        /\ \A x \in ReqIds : x < r => req[x].origin # "none"
        /\ req' = [req EXCEPT ![r] =
                     [NoReq EXCEPT !.origin = "menu", !.type = "processAction",
                                   !.action = action, !.sender = w,
                                   !.bpc = "inflight", !.cpc = "awaiting"]]
        /\ toast' = ShowToast("progress", r, TRUE, TRUE)
        /\ toastTimer' = TRUE
        /\ toastLog' = [toastLog EXCEPT ![r] = Append(@, "progress")]
    /\ menuOpen' = MenuAfterItemClick(menuOpen, w)
    /\ ToastMutatesDom
    /\ UNCHANGED <<state, popVars>>

\* handleAction resumes: sendMessage resolved with the listener's answer.
ResponseArrives(r) ==
    /\ req[r].cpc = "awaiting"
    /\ req[r].bpc = "answered"
    /\ LET kind == FinalToastKind("resolved", req[r].resp[1])
       IN /\ toast' = ShowToast(kind, r, FALSE, kind = "success")
          /\ toastLog' = [toastLog EXCEPT ![r] = Append(@, kind)]
    /\ toastTimer' = TRUE
    /\ req' = [req EXCEPT ![r].cpc = "final"]
    /\ ToastMutatesDom
    /\ UNCHANGED <<state, menuOpen, popVars>>

\* handleAction resumes: sendMessage rejected (no receiving end, or the
\* extension context is gone), the message never reached the listener.
SendRejects(r) ==
    /\ req[r].cpc = "awaiting"
    /\ req[r].bpc = "inflight"
    /\ LET kind == FinalToastKind("rejected", ErrResponse("none"))
       IN /\ toast' = ShowToast(kind, r, FALSE, kind = "success")
          /\ toastLog' = [toastLog EXCEPT ![r] = Append(@, kind)]
    /\ toastTimer' = TRUE
    /\ req' = [req EXCEPT ![r].cpc = "final", ![r].bpc = "lost"]
    /\ ToastMutatesDom
    /\ UNCHANGED <<state, menuOpen, popVars>>

\* The Undo span's click listener.
UndoClick ==
    /\ toast.exists /\ toast.undo
    /\ toast' = ShowToast("undone", toast.for, FALSE, TRUE)
    /\ toastTimer' = TRUE
    /\ ToastMutatesDom
    /\ UNCHANGED <<state, req, menuOpen, toastLog, popVars>>

\* The 5 s timer of showToast: the toast fades out.
ToastTimeout ==
    /\ toastTimer
    /\ toastTimer' = FALSE
    /\ toast' = [toast EXCEPT !.visible = FALSE]
    /\ UNCHANGED <<state, req, domVars, lifeVars, menuOpen, toastLog, popVars>>

\* ------------------------------------- contentScript.js: lifecycle actions
\* initializeExtension(): the previous instance, if any, is cleaned up and
\* dropped; a new UnclutExtension is constructed and its init() called.
InitializeExtension(failAt) ==
    /\ \E n \in InstIds :
        /\ inst[n].pc = "unborn"
        /\ \A m \in InstIds : m < n => inst[m].pc # "unborn"
        /\ LET S0 == [I |-> inst, d |-> Dom]
               S1 == IF cur # 0 THEN Cleanup(S0, cur) ELSE S0
               S2 == IF S1.d # S0.d THEN Settle(S1) ELSE S1
           IN PageBecomes(StartInit(S2, n, gmailReady, failAt))
        /\ cur' = n
    /\ toastTimer' = IF cur # 0 THEN FALSE ELSE toastTimer
    /\ UNCHANGED <<gmailReady, state, req, menuOpen, toast, toastLog, popVars>>

\* handleDocumentReady(): the content script starts on a Gmail page.
ScriptLoad(failAt) ==
    /\ cur = 0 /\ inst[1].pc = "unborn"
    /\ InitializeExtension(failAt)

\* handleUrlChange() on a changed URL, or a reloadExtension message.
Reinitialize(failAt) ==
    /\ inst[1].pc # "unborn"
    /\ InitializeExtension(failAt)

\* The init() continuations of the instances in W, lowest first.
RECURSIVE ResolveWaiters(_, _, _)
ResolveWaiters(S, W, f) ==
    IF W = {} THEN S
    ELSE LET i == CHOOSE x \in W : \A y \in W : x <= y
         IN ResolveWaiters(ResolveWait(S, i, "mutation", f[i]), W \ {i}, f)

\* Gmail inserts its main container and email list: the content observers
\* are called, and the observer of every waitForGmailContainer finds
\* isGmailReady(), cleans up and resolves.
GmailLoads(f) ==
    /\ ~gmailReady
    /\ gmailReady' = TRUE
    /\ LET W == {i \in InstIds : inst[i].waitObs}
       IN PageBecomes(ResolveWaiters(Settle([I |-> inst, d |-> Dom]), W, f))
    /\ UNCHANGED <<cur, bgVars, uiVars, popVars>>

\* The 10 s fallback timer of waitForGmailContainer: it cleans up and
\* resolves although Gmail is not ready.
WaitTimeout(i, failAt) ==
    /\ inst[i].waitTimer
    /\ PageBecomes(ResolveWait([I |-> inst, d |-> Dom], i, "timeout", failAt))
    /\ UNCHANGED <<cur, gmailReady, bgVars, uiVars, popVars>>

\* The retry timer of retryInitialization: init() is called again.
RetryTimerFires(i, failAt) ==
    /\ inst[i].pc = "retryTimer"
    /\ PageBecomes(StartInit([I |-> inst, d |-> Dom], i, gmailReady, failAt))
    /\ UNCHANGED <<cur, gmailReady, bgVars, uiVars, popVars>>

\* The 100 ms timer of shouldProcessMutations.
ThrottleTimer(i) ==
    /\ inst[i].processing
    /\ inst' = [inst EXCEPT ![i].processing = FALSE]
    /\ UNCHANGED <<cur, gmailReady, domVars, bgVars, uiVars, popVars>>

\* Gmail inserts a row element; the content observers are called.
AddRow(w, kind) ==
    /\ row[w] = "absent"
    /\ PageBecomes(Settle([I |-> inst,
                           d |-> [Dom EXCEPT !.row[w] = kind, !.processed[w] = FALSE,
                                             !.button[w] = FALSE]]))
    /\ UNCHANGED <<cur, gmailReady, bgVars, uiVars, popVars>>

\* Gmail removes a row element, with the trigger inside it.
RemoveRow(w) ==
    /\ row[w] # "absent"
    /\ PageBecomes(Settle([I |-> inst,
                           d |-> [Dom EXCEPT !.row[w] = "absent", !.processed[w] = FALSE,
                                             !.button[w] = FALSE]]))
    /\ UNCHANGED <<cur, gmailReady, bgVars, uiVars, popVars>>

\* A page the content script has not started on yet.
InitPage ==
    /\ cur = 0
    /\ inst = [i \in InstIds |-> NoInst]
    /\ gmailReady \in BOOLEAN
    /\ row \in [Rows -> {"absent", "plain", "sender"}]
    /\ processed = [w \in Rows |-> FALSE]
    /\ button = [w \in Rows |-> FALSE]

\* One instance and its retry loop: init() may throw at any of its points.
NextInit ==
    \/ \E f \in FailPoints : ScriptLoad(f)
    \/ \E f \in [InstIds -> FailPoints] : GmailLoads(f)
    \/ \E i \in InstIds, f \in FailPoints : WaitTimeout(i, f)
    \/ \E i \in InstIds, f \in FailPoints : RetryTimerFires(i, f)
    \/ \E i \in InstIds : ThrottleTimer(i)

\* The content script is about to start; background and popup are idle.
InitContent == InitBackground /\ InitPage /\ InitUi /\ InitPopup

SpecInit == InitContent /\ [][NextInit]_vars

\* The timers of the content script fire: the retry timers, the 10 s
\* fallback of waitForGmailContainer and the 100 ms throttle timers.
FairTimers ==
    \A i \in InstIds :
        /\ WF_vars(\E f \in FailPoints : RetryTimerFires(i, f))
        /\ WF_vars(\E f \in FailPoints : WaitTimeout(i, f))
        /\ WF_vars(ThrottleTimer(i))

\* Instances created, cleaned up and replaced while their init() may throw
\* at any of its points.
NextLife ==
    \/ \E f \in FailPoints : ScriptLoad(f)
    \/ \E f \in FailPoints : Reinitialize(f)
    \/ \E f \in [InstIds -> FailPoints] : GmailLoads(f)
    \/ \E i \in InstIds, f \in FailPoints : WaitTimeout(i, f)
    \/ \E i \in InstIds, f \in FailPoints : RetryTimerFires(i, f)
    \/ \E i \in InstIds : ThrottleTimer(i)

\* The content script is about to start on an inbox whose first row has a
\* sender email and whose other rows have none.
InitLife ==
    /\ InitBackground /\ InitUi /\ InitPopup
    /\ cur = 0
    /\ inst = [i \in InstIds |-> NoInst]
    /\ gmailReady \in BOOLEAN
    /\ row = [w \in Rows |-> IF w = 1 THEN "sender" ELSE "plain"]
    /\ processed = [w \in Rows |-> FALSE]
    /\ button = [w \in Rows |-> FALSE]

\* One instance and its retry loop on that page, with the timers firing.
SpecInitFair == InitLife /\ [][NextInit]_vars /\ FairTimers

SpecLife == InitLife /\ [][NextLife]_vars

\* The page with its rows coming and going and the extension reinitialized;
\* no statement of init() throws.
NextDom ==
    \/ ScriptLoad("none")
    \/ Reinitialize("none")
    \/ GmailLoads([i \in InstIds |-> "none"])
    \/ \E i \in InstIds : WaitTimeout(i, "none")
    \/ \E i \in InstIds : ThrottleTimer(i)
    \/ \E w \in Rows, k \in {"plain", "sender"} : AddRow(w, k)
    \/ \E w \in Rows : RemoveRow(w)

SpecDom == InitContent /\ [][NextDom]_vars

\* --------------------------------------------------- background.js actions
\* A page of the extension sends a message: init()'s extensionInitialized
\* notice, a menu's processAction, or a processAction another page sends.
\* (The background's side alone: what the sender does with the answer is
\* ItemClick's and ResponseArrives' matter.)
MessageSent(type, action, w) ==
    /\ \E r \in ReqIds :
        /\ req[r].origin = "none"
        /\ \A x \in ReqIds : x < r => req[x].origin # "none"
        /\ req' = [req EXCEPT ![r] =
                     [NoReq EXCEPT !.origin = "external", !.type = type,
                                   !.action = IF type = "processAction" THEN action ELSE "none",
                                   !.sender = IF type = "processAction" THEN w ELSE 0,
                                   !.bpc = "inflight"]]
    /\ UNCHANGED <<state, domVars, lifeVars, uiVars, popVars>>

\* The onMessage listener with handleAction up to its first real wait.
OnMessage(r) ==
    /\ req[r].bpc = "inflight"
    /\ LET q == [req[r] EXCEPT !.authAtReceipt = state.isAuthenticated]
       IN req' = [req EXCEPT ![r] =
                    IF q.type # "processAction" THEN [q EXCEPT !.bpc = "ignored"]
                    ELSE IF AlreadyAuthenticated(state)
                         THEN SwitchOnAction([q EXCEPT !.authed = TRUE])
                    ELSE [q EXCEPT !.bpc = "authToken"]]
    /\ UNCHANGED <<state, domVars, lifeVars, uiVars, popVars>>

\* The callback of chrome.identity.getAuthToken: with lastError set the
\* promise rejects, otherwise fetchUserInfo(token) starts its fetch.
AuthTokenCallback(r, lastError) ==
    /\ req[r].bpc = "authToken"
    /\ req' = [req EXCEPT ![r] =
                 IF lastError THEN AuthFailed(@) ELSE [@ EXCEPT !.bpc = "authFetch"]]
    /\ UNCHANGED <<state, domVars, lifeVars, uiVars, popVars>>

\* fetchUserInfo's fetch settles: "ok" parses the user info, "notOk" is a
\* response with ok = false, "error" a rejected fetch or json().
FetchSettles(r, outcome, info) ==
    /\ req[r].bpc = "authFetch"
    /\ IF outcome = "ok"
       THEN /\ state' = UpdateState(state, info)
            /\ req' = [req EXCEPT ![r] = SwitchOnAction([@ EXCEPT !.authed = TRUE])]
       ELSE /\ req' = [req EXCEPT ![r] = AuthFailed(@)]
            /\ UNCHANGED state
    /\ UNCHANGED <<domVars, lifeVars, uiVars, popVars>>

\* A stub's 1 s timer fires: the stub returns its canned object; once every
\* stub handleAction awaits has returned, handleAction returns and the
\* listener answers success: true.
StubTimer(r, p) ==
    /\ req[r].bpc = "stubs"
    /\ req[r].stub[p] = "pending"
    /\ LET st == [req[r].stub EXCEPT ![p] = "fulfilled"]
           q == [req[r] EXCEPT !.stub = st]
       IN req' = [req EXCEPT ![r] =
                    IF PromiseAll(st, StubsOf(q.action)) = "fulfilled"
                    THEN [q EXCEPT !.bpc = "answered",
                                   !.resp = Append(@, OkResponse(ActionResult(q.action, q.sender)))]
                    ELSE q]
    /\ UNCHANGED <<state, domVars, lifeVars, uiVars, popVars>>

\* The chrome.identity.onSignInChanged listener; account "" is a sign-out.
OnSignInChanged(accountId) ==
    /\ state' = [state EXCEPT
                   !.isAuthenticated = accountId # "",
                   !.currentUser = IF accountId # ""
                                   THEN [kind |-> "email", id |-> accountId]
                                   ELSE NoUser]
    /\ UNCHANGED <<req, domVars, lifeVars, uiVars, popVars>>

NextAction ==
    \/ \E w \in Rows : TriggerClick(w)
    \/ \E w \in Rows, a \in MenuActions : ItemClick(w, a)
    \/ \E r \in ReqIds : ResponseArrives(r)
    \/ \E r \in ReqIds : SendRejects(r)
    \/ UndoClick
    \/ ToastTimeout
    \/ \E i \in InstIds : ThrottleTimer(i)
    \/ \E r \in ReqIds : OnMessage(r)
    \/ \E r \in ReqIds, e \in BOOLEAN : AuthTokenCallback(r, e)
    \/ \E r \in ReqIds, o \in {"ok", "notOk", "error"}, i \in UserInfos : FetchSettles(r, o, i)
    \/ \E r \in ReqIds, p \in {"U", "D"} : StubTimer(r, p)
    \/ \E a \in Accounts \cup {""} : OnSignInChanged(a)

SpecAction == InitAction /\ [][NextAction]_vars

\* background.js on its own: the messages it is sent and its callbacks.
NextBackground ==
    \/ \E t \in MsgTypes, a \in AnyActions, w \in Rows : MessageSent(t, a, w)
    \/ \E r \in ReqIds : OnMessage(r)
    \/ \E r \in ReqIds, e \in BOOLEAN : AuthTokenCallback(r, e)
    \/ \E r \in ReqIds, o \in {"ok", "notOk", "error"}, i \in UserInfos : FetchSettles(r, o, i)
    \/ \E r \in ReqIds, p \in {"U", "D"} : StubTimer(r, p)
    \/ \E a \in Accounts \cup {""} : OnSignInChanged(a)

SpecBackground == InitAction /\ [][NextBackground]_vars

\* The browser delivers every message and runs every callback it owes:
\* getAuthToken calls back, the fetch settles, the 1 s timers fire.
FairBackground ==
    \A r \in ReqIds :
        /\ WF_vars(OnMessage(r))
        /\ WF_vars(\E e \in BOOLEAN : AuthTokenCallback(r, e))
        /\ WF_vars(\E o \in {"ok", "notOk", "error"}, i \in UserInfos : FetchSettles(r, o, i))
        /\ WF_vars(\E p \in {"U", "D"} : StubTimer(r, p))

SpecBackgroundFair == SpecBackground /\ FairBackground

\* background.js while nobody signs in or out of the browser: the messages
\* and the token, fetch and timer callbacks of their handlers, interleaved.
NextConcurrent ==
    \/ \E t \in MsgTypes, a \in AnyActions, w \in Rows : MessageSent(t, a, w)
    \/ \E r \in ReqIds : OnMessage(r)
    \/ \E r \in ReqIds, e \in BOOLEAN : AuthTokenCallback(r, e)
    \/ \E r \in ReqIds, o \in {"ok", "notOk", "error"}, i \in UserInfos : FetchSettles(r, o, i)
    \/ \E r \in ReqIds, p \in {"U", "D"} : StubTimer(r, p)

SpecConcurrent == InitAction /\ [][NextConcurrent]_vars

\* ---------------------------------------------------------- popup.js actions
otherVars == <<state, req, domVars, lifeVars, uiVars>>

\* background.js: the onInstalled listener (install, update, browser update);
\* no popup of the extension is open while it is installed or updated.
OnInstalled ==
    /\ popup = "closed"
    /\ storage' = StorageSet(storage, InstalledItems)
    /\ lastEvent' = "installed"
    /\ UNCHANGED <<popup, form, getKeys, setKeys, otherVars>>

\* The popup opens: the script runs and DOMContentLoaded calls loadSettings,
\* which asks storage for the keys of DEFAULT_SETTINGS.
PopupOpen ==
    /\ popup = "closed"
    /\ "settings" \in DOMAIN storage
    /\ popup' = "loading"
    /\ form' = BlankForm
    /\ getKeys' = DOMAIN DEFAULT_SETTINGS
    /\ lastEvent' = "open"
    /\ UNCHANGED <<storage, setKeys, otherVars>>

\* The callback of loadSettings' get.
LoadCallback ==
    /\ popup = "loading"
    /\ form' = FormOf(StorageGet(storage, DEFAULT_SETTINGS))
    /\ popup' = "ready"
    /\ lastEvent' = "loaded"
    /\ UNCHANGED <<storage, getKeys, setKeys, otherVars>>

\* The user changes a control.
EditAction(a) ==
    /\ popup # "closed"
    /\ form' = [form EXCEPT !.action = a]
    /\ lastEvent' = "edit"
    /\ UNCHANGED <<storage, popup, getKeys, setKeys, otherVars>>

EditMaxEmails(text) ==
    /\ popup # "closed"
    /\ form' = [form EXCEPT !.maxEmails = text]
    /\ lastEvent' = "edit"
    /\ UNCHANGED <<storage, popup, getKeys, setKeys, otherVars>>

ToggleConfirmation ==
    /\ popup # "closed"
    /\ form' = [form EXCEPT !.confirm = ~@]
    /\ lastEvent' = "edit"
    /\ UNCHANGED <<storage, popup, getKeys, setKeys, otherVars>>

\* saveSettings: the controls are read and written to storage. (The 'Settings
\* saved!' line its callback shows for 2 s is presentation only.)
SaveSettings ==
    /\ storage' = StorageSet(storage, SettingsToSave(form))
    /\ setKeys' = DOMAIN SettingsToSave(form)

\* The save button's click listener.
SaveClick ==
    /\ popup # "closed"
    /\ SaveSettings
    /\ lastEvent' = "saveClick"
    /\ UNCHANGED <<popup, form, getKeys, otherVars>>

\* The document's keypress listener.
KeyPress(key) ==
    /\ popup # "closed"
    /\ IF KeyIsEnter(key) THEN SaveSettings ELSE UNCHANGED <<storage, setKeys>>
    /\ lastEvent' = IF key = "Enter" THEN "keypressEnter" ELSE "keypressOther"
    /\ UNCHANGED <<popup, form, getKeys, otherVars>>

\* The help and manage-account links' click listeners: a tab or the options
\* page opens, nothing of the popup or of storage changes.
LinkClick(link) ==
    /\ popup # "closed"
    /\ lastEvent' = link
    /\ UNCHANGED <<storage, popup, form, getKeys, setKeys, otherVars>>

\* The popup is closed: its document and pending callbacks are gone.
PopupClose ==
    /\ popup # "closed"
    /\ popup' = "closed"
    /\ form' = BlankForm
    /\ lastEvent' = "close"
    /\ UNCHANGED <<storage, getKeys, setKeys, otherVars>>

NextSettings ==
    \/ OnInstalled
    \/ PopupOpen
    \/ LoadCallback
    \/ \E a \in MenuActions : EditAction(a)
    \/ \E text \in TypedInputs : EditMaxEmails(text)
    \/ ToggleConfirmation
    \/ SaveClick
    \/ \E key \in Keys : KeyPress(key)
    \/ \E link \in {"help", "manageAccount"} : LinkClick(link)
    \/ PopupClose

InitSettings == InitBackground /\ InitPageInjected /\ InitUi /\ InitPopup

SpecSettings == InitSettings /\ [][NextSettings]_vars

\* ------------------------------------------------- claims on the actions
\* The messages a menu item sent, and those the listener treats as actions.
MenuReqs == {r \in ReqIds : req[r].origin = "menu"}

ActionReqs == {r \in ReqIds : req[r].type = "processAction" /\ req[r].bpc # "inflight"}

\* The processing of r failed: the listener answered success: false, or the
\* send itself rejected.
ProcessingFailed(r) ==
    \/ req[r].bpc = "lost"
    \/ Len(req[r].resp) > 0 /\ ~req[r].resp[1].success

\* C3 (as stated): whenever the processing of an action failed, the content
\* script's handleAction ends with the failure toast and never shows the
\* success toast.
C3_FailureSurfacesAsFailureToast ==
    \A r \in MenuReqs :
        (req[r].cpc = "final" /\ ProcessingFailed(r)) =>
            /\ toastLog[r][Len(toastLog[r])] = "failure"
            /\ \A i \in 1..Len(toastLog[r]) : toastLog[r][i] # "success"

\* C4: for action 'both' the two stubs are started together and joined: the
\* answer exists exactly when both have completed, whichever completed
\* first, and its data holds both unsubResult and deleteResult.
C4_BothStubsJoined ==
    \A r \in ActionReqs :
        req[r].action = "both" =>
            /\ (req[r].stub["U"] = "idle") <=> (req[r].stub["D"] = "idle")
            /\ req[r].stub["U"] # "rejected" /\ req[r].stub["D"] # "rejected"
            /\ (Len(req[r].resp) > 0 /\ req[r].resp[1].success) <=>
                   (req[r].stub["U"] = "fulfilled" /\ req[r].stub["D"] = "fulfilled")
            /\ (Len(req[r].resp) > 0 /\ req[r].resp[1].success) =>
                   /\ DOMAIN req[r].resp[1].data = {"unsubResult", "deleteResult"}
                   /\ req[r].resp[1].data.unsubResult = UnsubResult(req[r].sender)
                   /\ req[r].resp[1].data.deleteResult = DeleteResult(req[r].sender)

\* C4 witness: one 'both' request answered with both results while another
\* has processDelete done and processUnsubscribe still pending.
C4_Witness ==
    \E r1, r2 \in ActionReqs :
        /\ req[r1].action = "both" /\ Len(req[r1].resp) = 1 /\ req[r1].resp[1].success
        /\ req[r2].action = "both" /\ Len(req[r2].resp) = 0
        /\ req[r2].stub["D"] = "fulfilled" /\ req[r2].stub["U"] = "pending"

\* C5: the stubs never reject and return success = true, so a processAction
\* request for unsubscribe, delete or both that is received while
\* state.isAuthenticated is true goes straight to its stubs and is never
\* answered with anything but success: true.
C5_StubsAlwaysSucceed ==
    \A r \in ActionReqs :
        /\ \A p \in {"U", "D"} : req[r].stub[p] # "rejected"
        /\ (req[r].authAtReceipt /\ req[r].action \in MenuActions) =>
              /\ req[r].bpc \in {"stubs", "answered"}
              /\ Len(req[r].resp) > 0 =>
                    /\ req[r].resp[1].success
                    /\ req[r].resp[1].data = ActionResult(req[r].action, req[r].sender)
                    /\ \/ req[r].action = "both"
                          /\ req[r].resp[1].data.unsubResult.success
                          /\ req[r].resp[1].data.deleteResult.success
                       \/ req[r].action # "both" /\ req[r].resp[1].data.success

\* C5 witness: a request received while authenticated and answered.
C5_Witness ==
    \E r \in ActionReqs :
        /\ req[r].authAtReceipt /\ req[r].action \in MenuActions
        /\ Len(req[r].resp) = 1 /\ req[r].resp[1].success

\* C10, the toasts of one menu click: a progress toast first, then exactly
\* one final toast (success or failure) once sendMessage has settled.
C10_ToastSequence ==
    \A r \in ReqIds :
        /\ req[r].origin # "menu" => toastLog[r] = <<>>
        /\ (req[r].origin = "menu" /\ req[r].cpc = "awaiting") => toastLog[r] = <<"progress">>
        /\ (req[r].origin = "menu" /\ req[r].cpc = "final") =>
              /\ Len(toastLog[r]) = 2
              /\ toastLog[r][1] = "progress"
              /\ toastLog[r][2] \in {"success", "failure"}

\* C10, the click itself: the step in which a menu item sends its message
\* closes that row's menu and shows the progress toast with Undo.
C10_ClickStep ==
    \A r \in ReqIds :
        (req[r].origin = "none" /\ req'[r].origin = "menu") =>
            /\ menuOpen[req'[r].sender]
            /\ ~menuOpen'[req'[r].sender]
            /\ toast' = ShowToast("progress", r, TRUE, TRUE)
            /\ toast'.undo /\ toast'.visible
            /\ req'[r].cpc = "awaiting"

\* C10: every click on a menu item closes that menu and shows a progress
\* toast offering Undo, which is followed by exactly one final toast for the
\* action, never shown before the progress toast.
C10_ClickThenOneFinalToast == []C10_ToastSequence /\ [][C10_ClickStep]_vars

\* C10 witness: both toasts of a click have been shown.
C10_Witness ==
    \E r \in MenuReqs : req[r].cpc = "final" /\ Len(toastLog[r]) = 2 /\ ~menuOpen[req[r].sender]

\* ------------------------------------------------ claims on the settings
\* What loadSettings has to show for a storage: per field the stored value,
\* or else the default.
ExpectedAction(store) ==
    IF "defaultAction" \in DOMAIN store THEN store.defaultAction ELSE "both"

ExpectedMaxEmails(store) ==
    IF "maxEmails" \in DOMAIN store THEN store.maxEmails ELSE 100

ExpectedConfirmation(store) ==
    IF "showConfirmation" \in DOMAIN store THEN store.showConfirmation ELSE TRUE

\* C6, the load step: the callback of loadSettings shows per control the
\* stored value when storage holds the key and the default when not.
C6_LoadStep ==
    (popup = "loading" /\ popup' = "ready") =>
        /\ form'.action = ExpectedAction(storage)
        /\ form'.maxEmails = NumberToString(ExpectedMaxEmails(storage))
        /\ form'.confirm = ExpectedConfirmation(storage)

\* C6, fresh install: as long as nothing was saved storage holds only what
\* onInstalled wrote, and a loaded popup shows exactly the defaults.
C6_FreshInstall ==
    setKeys = {} =>
        /\ DOMAIN storage \subseteq {"settings"}
        /\ (popup = "ready" /\ lastEvent = "loaded") =>
               form = [action |-> "both", maxEmails |-> <<"1", "0", "0">>, confirm |-> TRUE]

\* C6: loadSettings shows the stored value of defaultAction, maxEmails and
\* showConfirmation where storage holds one and the default ('both', 100,
\* true) where it does not; after a fresh install it shows the defaults.
C6_DefaultValueFallback == []C6_FreshInstall /\ [][C6_LoadStep]_vars

\* C6 witness: a popup that has just loaded stored values that are not the
\* defaults.
C6_Witness ==
    /\ popup = "ready" /\ lastEvent = "loaded"
    /\ "maxEmails" \in DOMAIN storage
    /\ storage.defaultAction # "both" /\ storage.maxEmails # 100 /\ ~storage.showConfirmation
    /\ form = [action |-> storage.defaultAction,
               maxEmails |-> NumberToString(storage.maxEmails),
               confirm |-> FALSE]

\* C7 (as stated): the stored settings are written only as the effect of a
\* click on the save button.
C7_WrittenOnlyOnSaveClick ==
    [][FlatRecord(storage') # FlatRecord(storage) => lastEvent' = "saveClick"]_vars

\* C7, one step: a read of storage starts only as the popup opens; the
\* settings record changes only on a save click or an Enter key press; the
\* only other write is the installation's, to the key 'settings'.
C7_Step ==
    /\ ((popup # "loading" /\ popup' = "loading") \/ getKeys' # getKeys) => lastEvent' = "open"
    /\ (FlatRecord(storage') # FlatRecord(storage) \/ setKeys' # setKeys) =>
           lastEvent' \in {"saveClick", "keypressEnter"}
    /\ storage' # storage => lastEvent' \in {"saveClick", "keypressEnter", "installed"}
    /\ lastEvent' = "installed" => storage' = StorageSet(storage, [settings |-> "{}"])

\* C7 (amended): the stored settings are read only when the popup opens and
\* written only by a click on the save button or an Enter key press; other
\* key presses, link clicks and the installation leave the record unchanged.
C7_ReadOnOpenWrittenOnSave == [][C7_Step]_vars

\* C7 witness: an Enter key press has just stored what the controls hold.
C7_Witness ==
    /\ lastEvent = "keypressEnter"
    /\ "maxEmails" \in DOMAIN storage
    /\ storage.maxEmails = MaxEmailsOf(form.maxEmails) /\ storage.maxEmails # 100
    /\ storage.defaultAction = form.action

\* C8 (as stated): the fields saveSettings writes are the fields loadSettings
\* reads, and both are defaultAction, maxEmails, showConfirmation and theme.
C8_SameFourFields ==
    (setKeys # {} /\ getKeys # {}) =>
        /\ setKeys = getKeys
        /\ setKeys = {"defaultAction", "maxEmails", "showConfirmation", "theme"}

\* C8 (amended): saveSettings writes exactly defaultAction, maxEmails,
\* showConfirmation and lastUpdated; loadSettings asks for exactly the four
\* fields of DEFAULT_SETTINGS; the fields saved and loaded alike are the
\* three defaultAction, maxEmails, showConfirmation, and theme is never stored.
C8_SavedAndLoadedFields ==
    /\ getKeys # {} => getKeys = {"defaultAction", "maxEmails", "showConfirmation", "theme"}
    /\ setKeys # {} =>
          /\ setKeys = {"defaultAction", "maxEmails", "showConfirmation", "lastUpdated"}
          /\ setKeys \subseteq DOMAIN storage
          /\ setKeys \cap {"defaultAction", "maxEmails", "showConfirmation", "theme"}
                = {"defaultAction", "maxEmails", "showConfirmation"}
    /\ setKeys = {} => DOMAIN storage \subseteq {"settings"}
    /\ "theme" \notin DOMAIN storage

\* C8 witness: settings were saved, and loaded again by a later popup.
C8_Witness ==
    /\ setKeys # {} /\ getKeys # {}
    /\ popup = "ready" /\ lastEvent = "loaded"
    /\ "lastUpdated" \in DOMAIN storage

\* ------------------------------------------- claims on the content script
\* The instances that have been constructed.
Born == {i \in InstIds : inst[i].pc # "unborn"}

\* C1, in every state: retryCount is at most 5, init() was called at most
\* 1 + 5 times, and an instance that gave up has used its 5 retries and has
\* no attempt scheduled or running.
C1_RetryCeiling ==
    \A i \in Born :
        /\ inst[i].retryCount <= 5
        /\ inst[i].attempts <= 1 + 5
        /\ inst[i].attempts <= inst[i].retryCount + 1
        /\ Len(inst[i].delays) = inst[i].retryCount
        /\ inst[i].gaveUp =>
              (inst[i].retryCount = 5 /\ inst[i].pc = "settled" /\ inst[i].timerDelay = 0)

\* C1, in every step: a failure at retryCount = 5 schedules nothing and the
\* instance gives up; after that init() is never called again.
C1_GiveUpStep ==
    \A i \in Born :
        /\ (inst[i].retryCount = 5 /\ inst[i].pc # "settled" /\ inst'[i].pc = "settled"
              /\ ~inst'[i].initialized)
             => (inst'[i].gaveUp /\ inst'[i].retryCount = 5 /\ inst'[i].timerDelay = 0)
        /\ inst[i].gaveUp =>
              (inst'[i].attempts = inst[i].attempts /\ inst'[i].pc = "settled"
                 /\ inst'[i].retryCount = 5)

\* C1: the retry loop of an instance has a fixed ceiling: retryCount never
\* exceeds maxRetries = 5, init() is attempted at most 1 + 5 times, and a
\* failure at retryCount = 5 schedules no further attempt.
C1_BoundedRetries == []C1_RetryCeiling /\ [][C1_GiveUpStep]_vars

\* C1 witness: an instance whose six attempts all failed has given up.
C1_Witness ==
    \E i \in Born : inst[i].gaveUp /\ inst[i].attempts = 6 /\ inst[i].retryCount = 5

\* The delays the claim lists.
ClaimedDelays == <<2000, 4000, 8000, 16000, 30000>>

\* C2: the delay scheduled before the k-th retry is min(1000 * 2^k, 30000),
\* that is 2000, 4000, 8000, 16000, 30000: never decreasing, never above
\* 30000 ms.
C2_BackoffDelays ==
    \A i \in Born :
        /\ Len(inst[i].delays) <= 5
        /\ \A k \in 1..Len(inst[i].delays) :
              /\ inst[i].delays[k] = ClaimedDelays[k]
              /\ inst[i].delays[k] <= 30000
              /\ k > 1 => inst[i].delays[k - 1] <= inst[i].delays[k]
        /\ inst[i].pc = "retryTimer" =>
              inst[i].timerDelay = ClaimedDelays[inst[i].retryCount]

\* C2 witness: all five retries have been scheduled, the last after 30000 ms.
C2_Witness ==
    \E i \in Born : Len(inst[i].delays) = 5 /\ inst[i].delays[5] = 30000

\* Nothing of the content script is pending: the current instance is
\* initialized and no instance has a timer or a waitForGmailContainer armed.
Quiescent ==
    /\ cur # 0 /\ inst[cur].initialized
    /\ \A i \in Born : inst[i].pc = "settled" /\ ~inst[i].processing

\* C9 (as stated, for a page that was never reinitialized): every row with a
\* sender email that stays in the DOM gets its trigger; so once the first
\* instance is initialized and nothing is pending any more, each such row
\* has one, also a row added inside the 100 ms throttle window.
C9_EverySenderRowGetsButton ==
    (Quiescent /\ cur = 1) => \A w \in Rows : row[w] = "sender" => button[w]

\* ---------------------------------------------- claims on background.js (2)
\* The answer a processAction request for a menu action gets when it is the
\* only request and authentication succeeds.
AnswerAlone(action, w) ==
    CASE action = "unsubscribe" ->
           [success |-> TRUE,
            data |-> [success |-> TRUE, message |-> <<"Successfully unsubscribed from", w>>]]
      [] action = "delete" ->
           [success |-> TRUE,
            data |-> [success |-> TRUE, message |-> <<"Successfully deleted emails from", w>>,
                      count |-> 42]]
      [] OTHER ->
           [success |-> TRUE,
            data |-> [unsubResult |-> [success |-> TRUE,
                                       message |-> <<"Successfully unsubscribed from", w>>],
                      deleteResult |-> [success |-> TRUE,
                                        message |-> <<"Successfully deleted emails from", w>>,
                                        count |-> 42]]]

\* The requests that were received while state.isAuthenticated was false and
\* whose own authentication succeeded.
AuthedLate ==
    {r \in ReqIds : /\ req[r].type = "processAction" /\ req[r].action \in MenuActions
                    /\ req[r].bpc \in {"stubs", "answered"}
                    /\ ~req[r].authAtReceipt /\ req[r].authed}

\* C11: the handlers of processAction requests share the state object
\* without synchronization and still, however the token callbacks, fetches
\* and stub timers of requests received unauthenticated interleave, each
\* request whose authentication succeeds is answered success: true with the
\* answer it would get alone, and state ends authenticated with a fetched
\* user info as currentUser.
C11_ConcurrentRequestsIndependent ==
    \A r \in AuthedLate :
        /\ state.isAuthenticated
        /\ state.currentUser.kind = "userInfo" /\ state.currentUser.id \in UserInfos
        /\ req[r].bpc = "answered" =>
              (req[r].resp = <<AnswerAlone(req[r].action, req[r].sender)>>)

\* C11 witness: two requests, both received before either had authenticated,
\* have both been answered.
C11_Witness ==
    \E r1, r2 \in AuthedLate :
        r1 # r2 /\ req[r1].bpc = "answered" /\ req[r2].bpc = "answered"
\* The messages the onMessage listener has been called for.
Received == {r \in ReqIds : req[r].bpc \notin {"none", "inflight", "lost"}}

\* C12, safety half: sendResponse is called at most once per message, only
\* for processAction messages, with {success: true, data} or
\* {success: false, error}; once called, the handler is done.
C12_AtMostOneAnswer ==
    \A r \in ReqIds :
        /\ Len(req[r].resp) <= 1
        /\ Len(req[r].resp) = 1 <=> req[r].bpc = "answered"
        /\ req[r].bpc = "answered" =>
              /\ req[r].type = "processAction"
              /\ \/ req[r].resp[1].success /\ DOMAIN req[r].resp[1] = {"success", "data"}
                 \/ ~req[r].resp[1].success /\ DOMAIN req[r].resp[1] = {"success", "error"}
        /\ (r \in Received /\ req[r].type # "processAction") => req[r].bpc = "ignored"

\* C12: every processAction message the listener receives is answered
\* exactly once (eventually, given that the token callback, the fetch and
\* the stub timers complete), with success: true or success: false; a
\* message of another type is never answered.
C12_AnsweredExactlyOnce ==
    /\ []C12_AtMostOneAnswer
    /\ \A r \in ReqIds :
          (r \in Received /\ req[r].type = "processAction") ~> (Len(req[r].resp) = 1)
    /\ \A r \in ReqIds : [](req[r].bpc = "answered" => [](Len(req[r].resp) = 1))

\* C12 witness: one message answered success: true, another success: false.
C12_Witness ==
    \E r1, r2 \in ReqIds :
        /\ req[r1].bpc = "answered" /\ req[r1].resp[1].success
        /\ req[r2].bpc = "answered" /\ ~req[r2].resp[1].success
\* C13, in every state: a request whose stubs were called is one whose
\* ensureAuthenticated had returned true.
C13_StubsOnlyWhenAuthed ==
    \A r \in ReqIds : req[r].stub # NoStubs => req[r].authed

\* C13, in every step: when the token request or the user-info fetch of a
\* request fails, the request is answered with the fixed message, none of its
\* stubs is called, and state is left as it was.
C13_AuthFailureStep ==
    \A r \in ReqIds :
        (/\ req[r].bpc \in {"authToken", "authFetch"}
         /\ req'[r].bpc # req[r].bpc
         /\ ~(req[r].bpc = "authToken" /\ req'[r].bpc = "authFetch")
         /\ ~req'[r].authed)
        => /\ req'[r].stub = NoStubs
           /\ req'[r].resp = <<[success |-> FALSE,
                                error |-> "Authentication required. Please sign in to continue."]>>
           /\ state'.isAuthenticated = state.isAuthenticated
           /\ state'.currentUser = state.currentUser

\* C13: no action is processed without authentication: the stubs run only
\* after ensureAuthenticated succeeded for the request, and a failed token
\* request or fetch ends in the 'Authentication required...' rejection with
\* no stub called and isAuthenticated and currentUser unchanged.
C13_NoActionWithoutAuth == []C13_StubsOnlyWhenAuthed /\ [][C13_AuthFailureStep]_vars

\* C13 witness: one request failed to authenticate and was refused without
\* a stub, another authenticated and has its stubs running or done.
C13_Witness ==
    \E r1, r2 \in ReqIds :
        /\ req[r1].bpc = "answered" /\ ~req[r1].authed /\ ~req[r1].authAtReceipt
        /\ req[r1].type = "processAction" /\ req[r1].stub = NoStubs
        /\ req[r2].authed /\ req[r2].stub # NoStubs
\* ------------------------------------------- claims on the lifecycle
\* Nothing of instance i's initialization is in flight, and it ended
\* initialized or out of retries.
Terminal(i) == inst[i].pc = "settled" /\ (inst[i].initialized \/ inst[i].gaveUp)

\* C14, in every step: an instance whose init() chain has ended (an attempt
\* succeeded, or the retries ran out) gets no retry scheduled any more.
C14_NoRetryAfterEnd ==
    \A i \in InstIds :
        inst[i].pc = "settled" =>
            /\ inst'[i].pc = "settled"
            /\ inst'[i].retryCount = inst[i].retryCount
            /\ inst'[i].attempts = inst[i].attempts
            /\ inst'[i].timerDelay = 0

\* C14, in every step: the state in which an instance's init() chain ends
\* is terminal: initialized = true or the retries used up, no timer pending.
C14_EndsTerminal ==
    \A i \in InstIds :
        (inst[i].pc # "settled" /\ inst'[i].pc = "settled")
            => (inst'[i].timerDelay = 0 /\ (inst'[i].initialized \/ inst'[i].gaveUp))

\* C14: initialization terminates: given that timers fire, every instance
\* eventually is in a state with initialized = true or all retries used and
\* no retry timer pending, and after a successful attempt no retry is ever
\* scheduled.
C14_InitTerminates ==
    /\ \A i \in InstIds : (inst[i].pc # "unborn") ~> (inst[i].pc = "settled")
    /\ [][C14_EndsTerminal]_vars
    /\ [][C14_NoRetryAfterEnd]_vars

\* C14 witness: an instance ended initialized after failed attempts.
C14_Witness ==
    \E i \in InstIds :
        Terminal(i) /\ inst[i].initialized /\ ~inst[i].gaveUp /\ inst[i].retryCount > 1
\* C15, in every state: while waitForGmailContainer is pending its observer
\* and its timer are both armed and Gmail is not ready; once it has resolved
\* the observer is disconnected and the timer cleared, and resolve() was
\* called once, by one trigger.
C15_WaitState ==
    \A i \in InstIds :
        /\ inst[i].pc = "waiting" =>
              /\ inst[i].waitObs /\ inst[i].waitTimer /\ ~gmailReady
              /\ inst[i].resolves = 0 /\ inst[i].resolvedBy = "none"
        /\ inst[i].pc # "waiting" =>
              /\ ~inst[i].waitObs /\ ~inst[i].waitTimer
              /\ inst[i].pc # "unborn" =>
                    (inst[i].resolves = 1
                       /\ inst[i].resolvedBy \in {"immediate", "mutation", "timeout"})

\* C15, in every step: a call with Gmail ready resolves at once; a pending
\* wait resolves in the step that makes Gmail ready, and otherwise only by
\* its timeout.
C15_WaitStep ==
    \A i \in InstIds :
        /\ (inst'[i].attempts # inst[i].attempts /\ ~inst[i].initialized /\ gmailReady)
              => (inst'[i].pc # "waiting" /\ inst'[i].resolvedBy = "immediate")
        /\ (inst'[i].attempts # inst[i].attempts /\ ~inst[i].initialized /\ ~gmailReady)
              => inst'[i].pc = "waiting"
        /\ (inst[i].pc = "waiting" /\ gmailReady')
              => (inst'[i].pc # "waiting" /\ inst'[i].resolvedBy = "mutation")
        /\ (inst[i].pc = "waiting" /\ inst'[i].pc # "waiting" /\ ~gmailReady')
              => inst'[i].resolvedBy = "timeout"

\* C15: waitForGmailContainer always resolves: at once when Gmail is ready
\* at the call, else at the DOM mutation that makes isGmailReady() hold, else
\* at the 10 s timeout; exactly one of them triggers it, and at resolution
\* its observer is disconnected and its timeout cleared, so neither fires
\* afterwards.
C15_WaitResolvesOnce ==
    /\ []C15_WaitState
    /\ [][C15_WaitStep]_vars
    /\ \A i \in InstIds : (inst[i].pc = "waiting") ~> (inst[i].pc # "waiting")

\* C15 witness: an instance has resolved by the timeout while Gmail is still
\* not ready.
C15_Witness ==
    \E i \in InstIds :
        inst[i].resolvedBy = "timeout" /\ inst[i].resolves = 1 /\ ~gmailReady
\* C16 (as stated): init() connects the content observer, injects buttons
\* and sets initialized = true only after isGmailReady() has returned true:
\* no instance is initialized, or has its content observer connected, while
\* Gmail has never been ready.
C16_InitializedOnlyWhenGmailReady ==
    \A i \in InstIds :
        (inst[i].initialized \/ inst[i].obs = "connected") => gmailReady
\* The instances initializeExtension has cleaned up and dropped.
Dropped == {i \in InstIds : inst[i].pc # "unborn" /\ i # cur}

\* C17 (as stated): a cleaned-up instance stays inert: after cleanup() it
\* never connects a content observer and never sets initialized = true, also
\* when its init() was waiting or a retry of it was pending at the cleanup.
C17_DroppedInstanceInert ==
    \A i \in Dropped : ~inst[i].initialized /\ inst[i].obs # "connected"
\* The number of connected content observers instance i has created.
ConnectedObservers(i) == inst[i].leaked + (IF inst[i].obs = "connected" THEN 1 ELSE 0)

\* C18 (as stated): each instance has at most one connected content
\* observer, the one this.observer refers to, also after an init() attempt
\* that failed after setupMutationObserver and was retried; with
\* this.observer = null it has none.
C18_AtMostOneObserver ==
    \A i \in InstIds :
        /\ ConnectedObservers(i) <= 1
        /\ inst[i].leaked = 0
\* C19 (as stated): after any sequence of injectButtons, cleanup and
\* reinitialization, a row carries the class unclut-processed exactly when
\* its injected trigger is in the DOM, so a row that lost its trigger in
\* cleanup() gets one again from the next instance.
C19_ProcessedIffButton ==
    \A w \in Rows : row[w] # "absent" => (processed[w] <=> button[w])
\* ------------------------------------------------ claims on popup.js (2)
\* The integer the claim expects for the text s of the max-emails input: the
\* value of its leading decimal digits with the sign in front of them, and
\* 100 when there is no such digit or the value is 0.
C20_ExpectedMaxEmails(s) ==
    LET neg == Len(s) >= 1 /\ s[1] = "-"
        first == IF neg THEN 2 ELSE 1
        isDigit(j) == \E d \in 0..9 : Digits[d + 1] = s[j]
        val(j) == CHOOSE d \in 0..9 : Digits[d + 1] = s[j]
        last == CHOOSE k \in (first - 1)..Len(s) :
                    /\ \A j \in first..k : isDigit(j)
                    /\ k < Len(s) => ~isDigit(k + 1)
        sum[j \in first..(last + 1)] ==
            IF j > last THEN 0 ELSE val(j) * (10 ^ (last - j)) + sum[j + 1]
        mag == sum[first]
    IN IF last < first \/ mag = 0 THEN 100
       ELSE IF neg THEN 0 - mag ELSE mag

\* A step in which saveSettings ran.
C20_IsSave == lastEvent' \in {"saveClick", "keypressEnter"}

\* C20, in every step: a save stores the controls' action and confirmation
\* and the expected integer; a load after a save shows the stored action and
\* confirmation and a text that stands for the stored integer; a save right
\* after a load, with no edit between, stores the same three values again.
C20_Step ==
    /\ C20_IsSave =>
          /\ storage'.defaultAction = form.action
          /\ storage'.showConfirmation = form.confirm
          /\ storage'.maxEmails = C20_ExpectedMaxEmails(form.maxEmails)
    /\ (popup = "loading" /\ popup' = "ready" /\ "maxEmails" \in DOMAIN storage) =>
          /\ form'.action = storage.defaultAction
          /\ form'.confirm = storage.showConfirmation
          /\ C20_ExpectedMaxEmails(form'.maxEmails) = storage.maxEmails
    /\ (C20_IsSave /\ lastEvent = "loaded" /\ "maxEmails" \in DOMAIN storage) =>
          /\ storage'.defaultAction = storage.defaultAction
          /\ storage'.showConfirmation = storage.showConfirmation
          /\ storage'.maxEmails = storage.maxEmails

\* C20, in every state: a stored maxEmails is an integer other than 0.
C20_StoredMaxEmails ==
    "maxEmails" \in DOMAIN storage => (storage.maxEmails \in Int /\ storage.maxEmails # 0)

====
